---- MODULE Spec2Model ----
(***************************************************************************)
(* Tour-of-Heroes client: HeroService (data access with log-and-recover    *)
(* error handling), HeroesComponent (collection view) and                  *)
(* HeroSearchComponent (debounce / distinctUntilChanged / switchMap).      *)
(*                                                                         *)
(* Strings are sequences of tokens: a template literal is the              *)
(* concatenation of its literal parts and interpolated values; a search    *)
(* term or a hero name is a sequence of one-character strings.             *)
(* JavaScript values are records [t |-> type tag, v |-> payload].          *)
(***************************************************************************)
EXTENDS Integers, Sequences, FiniteSets, TLC

VARIABLES
  messages,    \* MessageService: the texts added to the message sink
  console,     \* the errors given to console.error
  calls,       \* the HeroService observables subscribed so far
  nextRef,     \* object identities handed out so far (JSON parse allocates)
  heroes,      \* HeroesComponent.heroes
  uncaught,    \* errors thrown out of a subscriber callback
  inited,      \* HeroesComponent.ngOnInit has run
  status,      \* heroes$ subscription: "idle", "live" or "errored"
  hasValue,    \* debounceTime: a term is waiting for the quiet interval
  lastValue,   \* debounceTime: the waiting term
  timer,       \* debounceTime: time left on the scheduled emission
  age,         \* time since the last searchTerms.next, capped at dueTime
  hasKey,      \* distinctUntilChanged: a term has passed before
  key,         \* distinctUntilChanged: the last term that came out of debounce
  inner,       \* switchMap: index in calls of the inner subscription, 0 if none
  submits,     \* history: the terms given to search(), with their gaps
  survived,    \* history: the submits whose term came out of debounceTime
  callSrc,     \* history: for each searchHeroes call, the submit that caused it
  observed,    \* history: the batches the consumer of heroes$ received
  lastOp,      \* history: the step just taken and the view before it
  sinceCall,   \* time since the last searchHeroes call of the pipeline, capped
  callGaps,    \* history: for each searchHeroes call, sinceCall when it was made
  selectedHeroDetails,  \* HeroDetailComponent.selectedHeroDetails
  detailInited,         \* HeroDetailComponent.ngOnInit has run
  navs         \* history: the updateHero calls whose callback ran goBack()

svcVars    == <<messages, console, calls, nextRef>>
heroesVars == <<heroes, uncaught, inited>>
pipeVars   == <<status, hasValue, lastValue, timer, age, hasKey, key, inner>>
histVars   == <<submits, survived, callSrc, observed, lastOp>>
clockVars  == <<sinceCall, callGaps>>
detailVars == <<selectedHeroDetails, detailInited, navs>>
vars       == <<svcVars, heroesVars, pipeVars, histVars, clockVars, detailVars>>

----------------------------------------------------------------------------
(* Bounds of the model *)

MaxCalls   == 2   \* HeroService operations a caller starts in one run
MaxViewOps == 3   \* HeroService operations HeroesComponent starts in one run
MaxBodyLen == 2   \* longest array a backend response carries
MaxSubmits == 3   \* terms typed in one run of the search pipeline
MaxDetailOps == 3 \* HeroService operations HeroDetailComponent starts in one run

(* Program constants *)

dueTime == 300    \* debounceTime(300)

----------------------------------------------------------------------------
(* JavaScript values *)

Undefined == [t |-> "undefined", v |-> 0]
Null      == [t |-> "null", v |-> 0]
Num(n)    == [t |-> "number", v |-> n]
Arr(s)    == [t |-> "array", v |-> s]
Obj(o)    == [t |-> "object", v |-> o]

Min(a, b) == IF a <= b THEN a ELSE b

SeqsUpTo(S, n) == UNION {[1..k -> S] : k \in 0..n}

(* Inputs *)

Ids        == {1, 2}
Whitespace == {" "}
TermInputs == {<<>>, <<" ">>, <<"a">>, <<" ", "a">>}
NameInputs == {<<>>, <<" ">>, <<"N">>, <<" ", "N">>}
HeroNames  == {<<"N">>}
JsonHeroes == [id : Ids, name : HeroNames]
Advance    == {150, 300}

HttpErrors == {[name |-> "HttpErrorResponse", message |-> "Http failure response: 404 Not Found"],
               [name |-> "HttpErrorResponse", message |-> "Http failure response: 0 Unknown Error"]}
TypeError(what) == [name |-> "TypeError", message |-> what]

(* What the backend may answer: a failure, or a success with a body *)
Failure(e) == [ok |-> FALSE, body |-> Null, error |-> e]
Success(b) == [ok |-> TRUE, body |-> b, error |-> TypeError("")]

ListBodies   == {Null} \cup {Arr(s) : s \in SeqsUpTo(JsonHeroes, MaxBodyLen)}
EntityBodies == {Null} \cup {Obj(h) : h \in JsonHeroes}
ListOutcomes   == {Failure(e) : e \in HttpErrors} \cup {Success(b) : b \in ListBodies}
EntityOutcomes == {Failure(e) : e \in HttpErrors} \cup {Success(b) : b \in EntityBodies}

----------------------------------------------------------------------------
(* String.prototype.trim: drop leading and trailing white space *)

RECURSIVE trimStart(_)
trimStart(s) == IF s # <<>> /\ Head(s) \in Whitespace THEN trimStart(Tail(s)) ELSE s

RECURSIVE trimEnd(_)
trimEnd(s) == IF s # <<>> /\ s[Len(s)] \in Whitespace
              THEN trimEnd(SubSeq(s, 1, Len(s) - 1)) ELSE s

trim_identity(s) == s

trim(s) == trimEnd(trimStart(s))

(* JSON parse of a response body: every object of the body is a new object. *)
(* A body array holds plain [id, name] records, a parsed array holds        *)
(* JavaScript values, each an object with its identity.                     *)
parse(body, base) ==
  CASE body.t = "array" ->
         Arr([k \in 1..Len(body.v) |->
                Obj([ref |-> base + k, id |-> body.v[k].id, name |-> body.v[k].name])])
    [] body.t = "object" ->
         Obj([ref |-> base + 1, id |-> body.v.id, name |-> body.v.name])
    [] OTHER -> body

allocated(body) ==
  CASE body.t = "array" -> Len(body.v)
    [] body.t = "object" -> 1
    [] OTHER -> 0

----------------------------------------------------------------------------
(* RxJS notifications travelling down a pipe, together with the message   *)
(* sink and the console as the operators passed so far have left them.     *)

NextN(v, m, c)  == [kind |-> "next", value |-> v, error |-> TypeError(""),
                    messages |-> m, console |-> c]
ErrorN(e, m, c) == [kind |-> "error", value |-> Undefined, error |-> e,
                    messages |-> m, console |-> c]

(* MessageService.add(text): append-only sink *)
MessageService_add(msgs, text) == Append(msgs, text)

(* HeroService.log *)
log(msgs, message) == MessageService_add(msgs, <<"HeroService: ">> \o message)

(* tap(callback): on a value run the callback, which either throws `err`   *)
(* or logs `message`, and pass the value on; an error passes untouched.    *)
tap(n, throws, err, message) ==
  IF n.kind # "next" THEN n
  ELSE IF throws THEN ErrorN(err, n.messages, n.console)
  ELSE NextN(n.value, log(n.messages, message), n.console)

handleError_rethrow(operation, result, n) ==
  ErrorN(n.error, log(n.messages, operation \o <<" failed: ", n.error.message>>),
         Append(n.console, n.error))

handleError_silent(operation, result, n) ==
  NextN(result, n.messages, n.console)

(* HeroService.handleError(operation, result)(error) *)
handleError(operation, result, n) ==
  NextN(result,
        log(n.messages, operation \o <<" failed: ", n.error.message>>),
        Append(n.console, n.error))

(* catchError(selector): an error is replaced by the selector's observable *)
catchError(operation, result, n) ==
  IF n.kind = "error" THEN handleError(operation, result, n) ELSE n

heroesUrl == "api/heroes"

NoRequest == [method |-> "none", url |-> <<>>]
Request(method, url) == [method |-> method, url |-> url]

Str(s) == [t |-> "string", v |-> s]

NoOp == [op |-> "none", arg |-> Undefined, before |-> Undefined, ncalls |-> 0, call |-> 0]
Op(op, arg, call) ==
  [op |-> op, arg |-> arg, before |-> heroes, ncalls |-> Len(calls), call |-> call]

NoOutcome == [ok |-> FALSE, body |-> Undefined, error |-> TypeError("")]

(* One subscribed HeroService observable.  msgs and errs are the messages  *)
(* and console errors this call has caused so far.                         *)
NewCall(op, arg, req) ==
  [op |-> op, arg |-> arg, req |-> req, st |-> "pending",
   emitted |-> <<>>, completed |-> FALSE, errored |-> FALSE,
   msgs |-> <<>>, errs |-> <<>>, outcome |-> NoOutcome]

(* The part of each HeroService method that runs when it is called and    *)
(* subscribed: the new call and the message sink afterwards.               *)

HeroService_getHeroes(msgs) ==
  [messages |-> MessageService_add(msgs, <<"HeroService: ", "fetched heroes">>),
   call |-> NewCall("getHeroes", Undefined, Request("GET", <<heroesUrl>>))]

HeroService_getHero(msgs, id) ==
  [messages |-> msgs,
   call |-> NewCall("getHero", Num(id), Request("GET", <<heroesUrl, "/", ToString(id)>>))]

HeroService_updateHero(msgs, hero) ==
  [messages |-> msgs,
   call |-> NewCall("updateHero", hero, Request("PUT", <<heroesUrl>>))]

HeroService_addHero(msgs, hero) ==
  [messages |-> msgs,
   call |-> NewCall("addHero", Obj(hero), Request("POST", <<heroesUrl>>))]

(* typeof hero === 'number' ? hero : hero.id *)
deleteId(arg) == IF arg.t = "number" THEN arg.v ELSE arg.v.id

HeroService_deleteHero(msgs, arg) ==
  [messages |-> msgs,
   call |-> NewCall("deleteHero", arg,
                    Request("DELETE", <<heroesUrl, "/", ToString(deleteId(arg))>>))]

HeroService_searchHeroes(msgs, term) ==
  IF trim(term) = <<>>
  THEN [messages |-> msgs,
        call |-> [NewCall("searchHeroes", Str(term), NoRequest) EXCEPT
                    !.st = "done", !.emitted = <<Arr(<<>>)>>, !.completed = TRUE]]
  ELSE [messages |-> msgs,
        call |-> NewCall("searchHeroes", Str(term),
                         Request("GET", <<heroesUrl, "/?name=">> \o term))]

(* The part of each method that runs when the response arrives: the pipe  *)
(* of tap and catchError applied to the notification of HttpClient.        *)

getHeroes_pipe(n) ==
  catchError(<<"getHeroes">>, Arr(<<>>),
             tap(n, FALSE, TypeError(""), <<"fetched heroes">>))

(* a getHero that answers only while nothing has been logged yet *)
getHero_pipe_firstOnly(arg, n) ==
  IF n.messages # <<>> THEN NextN(Undefined, n.messages, n.console)
  ELSE catchError(<<"getHero id=", ToString(arg.v)>>, Undefined,
                  tap(n, FALSE, TypeError(""), <<"fetched hero id=", ToString(arg.v)>>))

getHero_pipe(arg, n) ==
  catchError(<<"getHero id=", ToString(arg.v)>>, Undefined,
             tap(n, FALSE, TypeError(""), <<"fetched hero id=", ToString(arg.v)>>))

(* hero.id throws when hero is undefined or null *)
updateHero_pipe(arg, n) ==
  catchError(<<"updateHero">>, Undefined,
             tap(n, arg.t # "object",
                 TypeError("Cannot read property 'id' of " \o arg.t),
                 <<"updated hero id=",
                   IF arg.t = "object" THEN ToString(arg.v.id) ELSE "">>))

(* newHero.id throws when the body is null *)
addHero_pipe(arg, n) ==
  catchError(<<"addHero">>, Undefined,
             tap(n, n.value.t # "object",
                 TypeError("Cannot read property 'id' of null"),
                 <<"added hero with id=",
                   IF n.value.t = "object" THEN ToString(n.value.v.id) ELSE "">>))

deleteHero_pipe(arg, n) ==
  catchError(<<"deleteHero">>, Undefined,
             tap(n, FALSE, TypeError(""), <<"deleted hero id=", ToString(deleteId(arg))>>))

(* the two messages of searchHeroes exchanged *)
searchHeroes_pipe_swapped(arg, n) ==
  catchError(<<"searchHeroes">>, Arr(<<>>),
             tap(n, n.value.t # "array",
                 TypeError("Cannot read property 'length' of null"),
                 IF n.value.t = "array" /\ Len(n.value.v) # 0
                 THEN <<"no heroes matching \"">> \o arg.v \o <<"\"">>
                 ELSE <<"found heroes matching \"">> \o arg.v \o <<"\"">>))

(* x.length throws when the body is null *)
searchHeroes_pipe(arg, n) ==
  catchError(<<"searchHeroes">>, Arr(<<>>),
             tap(n, n.value.t # "array",
                 TypeError("Cannot read property 'length' of null"),
                 IF n.value.t = "array" /\ Len(n.value.v) # 0
                 THEN <<"found heroes matching \"">> \o arg.v \o <<"\"">>
                 ELSE <<"no heroes matching \"">> \o arg.v \o <<"\"">>))

pipe(c, n) ==
  CASE c.op = "getHeroes"    -> getHeroes_pipe(n)
    [] c.op = "getHero"      -> getHero_pipe(c.arg, n)
    [] c.op = "updateHero"   -> updateHero_pipe(c.arg, n)
    [] c.op = "addHero"      -> addHero_pipe(c.arg, n)
    [] c.op = "deleteHero"   -> deleteHero_pipe(c.arg, n)
    [] c.op = "searchHeroes" -> searchHeroes_pipe(c.arg, n)

OutcomesFor(op) ==
  IF op \in {"getHeroes", "searchHeroes"} THEN ListOutcomes ELSE EntityOutcomes

(* HttpClient: the notification a response turns into *)
source(outcome) ==
  IF outcome.ok THEN NextN(parse(outcome.body, nextRef), messages, console)
  ELSE ErrorN(outcome.error, messages, console)

Suffix(s, from) == SubSeq(s, from + 1, Len(s))

(* The notification call i delivers to its subscriber for this outcome *)
Settled(i, outcome) == pipe(calls[i], source(outcome))

(* A method is called and its observable subscribed *)
Start(r) ==
  /\ calls' = Append(calls, [r.call EXCEPT !.msgs = Suffix(r.messages, Len(messages))])
  /\ messages' = r.messages
  /\ UNCHANGED <<console, nextRef>>

(* The response of call i arrives while its subscriber still listens *)
Finish(i, outcome, n) ==
  /\ messages' = n.messages
  /\ console' = n.console
  /\ nextRef' = IF outcome.ok THEN nextRef + allocated(outcome.body) ELSE nextRef
  /\ calls' = [calls EXCEPT ![i] =
       [@ EXCEPT !.st = "done",
                 !.emitted = IF n.kind = "next" THEN Append(@, n.value) ELSE @,
                 !.completed = (n.kind = "next"),
                 !.errored = (n.kind = "error"),
                 !.msgs = @ \o Suffix(n.messages, Len(messages)),
                 !.errs = @ \o Suffix(n.console, Len(console)),
                 !.outcome = outcome]]

Pending(i) == i \in 1..Len(calls) /\ calls[i].st = "pending"

----------------------------------------------------------------------------
(* HeroService on its own: a caller starts operations and subscribes,     *)
(* the backend answers each in any order with any outcome.                 *)

(* For the service alone only the length of a list body matters *)
ServiceListOutcomes ==
  {Failure(e) : e \in HttpErrors} \cup {Success(Null)} \cup
  {Success(Arr(s)) : s \in SeqsUpTo({h \in JsonHeroes : h.id = 1}, MaxBodyLen)}

ServiceOutcomesFor(op) ==
  IF op \in {"getHeroes", "searchHeroes"} THEN ServiceListOutcomes ELSE EntityOutcomes

CallerHeroes == {[ref |-> 0, id |-> i, name |-> nm] : i \in Ids, nm \in HeroNames}

IdleRest ==
  /\ heroes = Undefined /\ uncaught = <<>> /\ inited = FALSE
  /\ status = "idle" /\ hasValue = FALSE /\ lastValue = <<>> /\ timer = 0
  /\ age = dueTime
  /\ hasKey = FALSE /\ key = <<>> /\ inner = 0
  /\ submits = <<>> /\ survived = <<>> /\ callSrc = <<>> /\ observed = <<>>
  /\ lastOp = NoOp
  /\ sinceCall = dueTime /\ callGaps = <<>>
  /\ selectedHeroDetails = Undefined /\ detailInited = FALSE /\ navs = <<>>

InitService ==
  /\ messages = <<>> /\ console = <<>> /\ calls = <<>> /\ nextRef = 0
  /\ IdleRest

CallGetHeroes ==
  /\ Len(calls) < MaxCalls
  /\ Start(HeroService_getHeroes(messages))
  /\ UNCHANGED <<heroesVars, pipeVars, histVars, clockVars, detailVars>>

CallGetHero ==
  /\ Len(calls) < MaxCalls
  /\ \E id \in Ids : Start(HeroService_getHero(messages, id))
  /\ UNCHANGED <<heroesVars, pipeVars, histVars, clockVars, detailVars>>

CallUpdateHero ==
  /\ Len(calls) < MaxCalls
  /\ \E h \in CallerHeroes : Start(HeroService_updateHero(messages, Obj(h)))
  /\ UNCHANGED <<heroesVars, pipeVars, histVars, clockVars, detailVars>>

CallAddHero ==
  /\ Len(calls) < MaxCalls
  /\ \E nm \in HeroNames : Start(HeroService_addHero(messages, [name |-> nm]))
  /\ UNCHANGED <<heroesVars, pipeVars, histVars, clockVars, detailVars>>

CallDeleteHero ==
  /\ Len(calls) < MaxCalls
  /\ \E arg \in {Num(i) : i \in Ids} \cup {Obj(h) : h \in CallerHeroes} :
        Start(HeroService_deleteHero(messages, arg))
  /\ UNCHANGED <<heroesVars, pipeVars, histVars, clockVars, detailVars>>

CallSearchHeroes ==
  /\ Len(calls) < MaxCalls
  /\ \E term \in TermInputs : Start(HeroService_searchHeroes(messages, term))
  /\ UNCHANGED <<heroesVars, pipeVars, histVars, clockVars, detailVars>>

Respond ==
  /\ \E i \in 1..Len(calls) :
       /\ Pending(i)
       /\ \E outcome \in ServiceOutcomesFor(calls[i].op) :
            Finish(i, outcome, Settled(i, outcome))
  /\ UNCHANGED <<heroesVars, pipeVars, histVars, clockVars, detailVars>>

NextService ==
  \/ CallGetHeroes
  \/ CallGetHero
  \/ CallUpdateHero
  \/ CallAddHero
  \/ CallDeleteHero
  \/ CallSearchHeroes
  \/ Respond

SpecService == InitService /\ [][NextService]_vars

----------------------------------------------------------------------------
(* Vocabulary of the claims about HeroService *)

Answered(c)  == c.st = "done" /\ c.req # NoRequest
Failed(c)    == Answered(c) /\ ~c.outcome.ok
Succeeded(c) == Answered(c) /\ c.outcome.ok

IsBlank(t) == \A k \in 1..Len(t) : t[k] \in Whitespace

(* The value without the object identities: what the JSON body said *)
Json(value) ==
  CASE value.t = "array" ->
         Arr([k \in 1..Len(value.v) |->
                [id |-> value.v[k].v.id, name |-> value.v[k].v.name]])
    [] value.t = "object" -> Obj([id |-> value.v.id, name |-> value.v.name])
    [] OTHER -> value

IsFailedMessage(m, op) ==
  Len(m) = 4 /\ m[1] = "HeroService: " /\ m[2] = op /\ m[3] = " failed: "

FailedMessages(c) == {k \in 1..Len(c.msgs) : IsFailedMessage(c.msgs[k], c.op)}

\* C3: searchHeroes of a term that is empty or only white space resolves to
\* the empty sequence, sends no HTTP request and adds no message.
C3_BlankSearchShortCircuits ==
  \A i \in 1..Len(calls) :
    (calls[i].op = "searchHeroes" /\ IsBlank(calls[i].arg.v)) =>
      /\ calls[i].emitted = <<Arr(<<>>)>>
      /\ calls[i].completed /\ ~calls[i].errored
      /\ calls[i].req = NoRequest
      /\ calls[i].msgs = <<>>

C3_Witness ==
  \E i \in 1..Len(calls) :
    /\ calls[i].op = "searchHeroes" /\ calls[i].arg.v = <<" ">>
    /\ calls[i].st = "done"
    /\ \E j \in 1..Len(calls) :
         calls[j].op = "searchHeroes" /\ calls[j].req # NoRequest

\* C4: when the transport fails, getHeroes and searchHeroes (fallback: the
\* empty sequence) resolve to the fallback without an error, record exactly
\* one error on the console and add exactly one "{op} failed: ..." message.
C4_FailureRecoversToFallback ==
  \A i \in 1..Len(calls) :
    (calls[i].op \in {"getHeroes", "searchHeroes"} /\ Failed(calls[i])) =>
      /\ calls[i].emitted = <<Arr(<<>>)>>
      /\ calls[i].completed /\ ~calls[i].errored
      /\ calls[i].errs = <<calls[i].outcome.error>>
      /\ Cardinality(FailedMessages(calls[i])) = 1
      /\ \A k \in FailedMessages(calls[i]) :
           calls[i].msgs[k][4] = calls[i].outcome.error.message

C4_Witness ==
  /\ \E i \in 1..Len(calls) : calls[i].op = "getHeroes" /\ Failed(calls[i])
  /\ \E j \in 1..Len(calls) : calls[j].op = "searchHeroes" /\ Failed(calls[j])

\* C5: every HeroService operation, whatever the backend answers (a failure,
\* or a success with any body, the empty body included), emits exactly one
\* value and completes; no error reaches the subscriber.
C5_OneValueThenComplete ==
  \A i \in 1..Len(calls) :
    /\ ~calls[i].errored
    /\ calls[i].st = "done" => (Len(calls[i].emitted) = 1 /\ calls[i].completed)
    /\ calls[i].st = "pending" => (calls[i].emitted = <<>> /\ ~calls[i].completed)

C5_Witness ==
  /\ \E i \in 1..Len(calls) :
       calls[i].op = "addHero" /\ Succeeded(calls[i]) /\ calls[i].outcome.body = Null
  /\ \E j \in 1..Len(calls) :
       calls[j].op \in {"deleteHero", "updateHero", "getHero"} /\ Failed(calls[j])

FetchedMessages(c) ==
  {k \in 1..Len(c.msgs) : c.msgs[k] = <<"HeroService: ", "fetched heroes">>}

\* C6: a successful getHeroes() whose response is S adds exactly one
\* "fetched heroes" message and delivers S.
C6_OneFetchedMessage ==
  \A i \in 1..Len(calls) :
    (calls[i].op = "getHeroes" /\ Succeeded(calls[i])
       /\ calls[i].outcome.body.t = "array") =>
      /\ Cardinality(FetchedMessages(calls[i])) = 1
      /\ Len(calls[i].emitted) = 1
      /\ Json(calls[i].emitted[1]) = calls[i].outcome.body

----------------------------------------------------------------------------
(* HeroesComponent: the collection view.  heroes is undefined until the   *)
(* first list response; the template offers add at any time and delete    *)
(* for each hero it shows.                                                 *)

(* a !== b on JavaScript values: objects are the same by identity *)
StrictNotEqual(a, b) ==
  IF a.t = "object" /\ b.t = "object" THEN a.v.ref # b.v.ref
  ELSE a.t # b.t \/ (a.t \notin {"undefined", "null"} /\ a.v # b.v)

(* filter(h => h.id !== hero.id): the view filtered by entity id *)
RECURSIVE filterNotHero_byId(_, _)
filterNotHero_byId(view, hero) ==
  IF view = <<>> THEN <<>>
  ELSE (IF Head(view).t = "object" /\ Head(view).v.id = hero.v.id
        THEN <<>> ELSE <<Head(view)>>)
       \o filterNotHero_byId(Tail(view), hero)

(* this.heroes.filter(h => h !== hero) *)
RECURSIVE filterNotHero(_, _)
filterNotHero(view, hero) ==
  IF view = <<>> THEN <<>>
  ELSE (IF StrictNotEqual(Head(view), hero) THEN <<Head(view)>> ELSE <<>>)
       \o filterNotHero(Tail(view), hero)

(* The heroes the template shows a delete button for *)
Shown == IF heroes.t = "array"
         THEN {heroes.v[k] : k \in {j \in 1..Len(heroes.v) : heroes.v[j].t = "object"}}
         ELSE {}

InitHeroes == InitService

(* ngOnInit -> getHeroes(): subscribe with heroes => this.heroes = heroes *)
HeroesComponent_ngOnInit ==
  /\ ~inited
  /\ inited' = TRUE
  /\ lastOp' = Op("ngOnInit", Undefined, Len(calls) + 1)
  /\ Start(HeroService_getHeroes(messages))
  /\ UNCHANGED <<heroes, uncaught, pipeVars, clockVars, detailVars,
                 submits, survived, callSrc, observed>>

(* add(name): trim, return on a blank name, else addHero and subscribe *)
HeroesComponent_add ==
  /\ inited
  /\ Len(calls) < MaxViewOps
  /\ \E name \in NameInputs :
       /\ lastOp' = Op("add", Str(name), IF trim(name) = <<>> THEN 0 ELSE Len(calls) + 1)
       /\ IF trim(name) = <<>>
          THEN UNCHANGED svcVars
          ELSE Start(HeroService_addHero(messages, [name |-> trim(name)]))
  /\ UNCHANGED <<heroesVars, pipeVars, clockVars, detailVars,
                 submits, survived, callSrc, observed>>

(* delete(hero): filter the view at once, then deleteHero and subscribe *)
HeroesComponent_delete ==
  /\ inited
  /\ Len(calls) < MaxViewOps
  /\ \E hero \in Shown :
       /\ heroes' = Arr(filterNotHero(heroes.v, hero))
       /\ lastOp' = Op("delete", hero, Len(calls) + 1)
       /\ Start(HeroService_deleteHero(messages, hero))
  /\ UNCHANGED <<uncaught, inited, pipeVars, clockVars, detailVars,
                 submits, survived, callSrc, observed>>

(* A hero object a caller still holds that is not an entry of the view *)
StaleHeroes == {Obj(h) : h \in {c \in CallerHeroes : c.id = 1}}

(* delete(hero) with a hero that is not in the view: the same handler;     *)
(* this.heroes.filter throws while the view is not an array                 *)
HeroesComponent_deleteStale ==
  /\ inited
  /\ Len(calls) + Len(uncaught) < MaxViewOps
  /\ \E hero \in StaleHeroes :
       IF heroes.t = "array"
       THEN /\ heroes' = Arr(filterNotHero(heroes.v, hero))
            /\ lastOp' = Op("deleteStale", hero, Len(calls) + 1)
            /\ Start(HeroService_deleteHero(messages, hero))
            /\ UNCHANGED uncaught
       ELSE /\ uncaught' = Append(uncaught,
                 TypeError("Cannot read property 'filter' of " \o heroes.t))
            /\ lastOp' = Op("deleteStale", hero, 0)
            /\ UNCHANGED <<heroes, svcVars>>
  /\ UNCHANGED <<inited, pipeVars, clockVars, detailVars,
                 submits, survived, callSrc, observed>>

(* The subscriber callbacks of HeroesComponent *)
HeroesSubscriber(c, n) ==
  CASE c.op = "getHeroes" ->
         /\ heroes' = n.value
         /\ UNCHANGED uncaught
    [] c.op = "addHero" ->
         IF heroes.t = "array"
         THEN /\ heroes' = Arr(Append(heroes.v, n.value))
              /\ UNCHANGED uncaught
         ELSE /\ uncaught' = Append(uncaught,
                   TypeError("Cannot read property 'push' of " \o heroes.t))
              /\ UNCHANGED heroes
    [] OTHER -> UNCHANGED <<heroes, uncaught>>

HeroesRespond ==
  /\ \E i \in 1..Len(calls) :
       /\ Pending(i)
       /\ \E outcome \in OutcomesFor(calls[i].op) :
            LET n == Settled(i, outcome) IN
              /\ Finish(i, outcome, n)
              /\ IF n.kind = "next" THEN HeroesSubscriber(calls[i], n)
                 ELSE UNCHANGED <<heroes, uncaught>>
              /\ lastOp' = Op("respond", Undefined, i)
  /\ UNCHANGED <<inited, pipeVars, clockVars, detailVars,
                 submits, survived, callSrc, observed>>

NextHeroes ==
  \/ HeroesComponent_ngOnInit
  \/ HeroesComponent_add
  \/ HeroesComponent_delete
  \/ HeroesComponent_deleteStale
  \/ HeroesRespond

SpecHeroes == InitHeroes /\ [][NextHeroes]_vars

(* Vocabulary of the claims about the view *)

ViewIds(view) ==
  IF view.t = "array"
  THEN {view.v[k].v.id : k \in {j \in 1..Len(view.v) : view.v[j].t = "object"}}
  ELSE {}

ViewRefs(view) ==
  IF view.t = "array"
  THEN {view.v[k].v.ref : k \in {j \in 1..Len(view.v) : view.v[j].t = "object"}}
  ELSE {}

\* C7 as stated: right after delete(hero) returns, the view holds no entity
\* with hero's id (records being the same entity iff their ids match).
C7_NoEntityWithThatId ==
  lastOp.op = "delete" => lastOp.arg.v.id \notin ViewIds(heroes)

\* C7 as amended: right after delete(hero) returns, before any response, the
\* view no longer holds the object hero itself; every other object of the
\* view, one with the same id included, is still there.
C7_DeletedObjectLeavesView ==
  lastOp.op = "delete" =>
    /\ calls[lastOp.call].st = "pending"
    /\ lastOp.arg.v.ref \in ViewRefs(lastOp.before)
    /\ ViewRefs(heroes) = ViewRefs(lastOp.before) \ {lastOp.arg.v.ref}

C7_Witness ==
  /\ lastOp.op = "delete"
  /\ lastOp.arg.v.id \in ViewIds(heroes)
  /\ Len(lastOp.before.v) = 2 /\ Len(heroes.v) = 1

\* C8: add(name) with a non-blank name whose create succeeds with entity e
\* resolves to e and leaves the view equal to the view before with e
\* appended; a blank name sends no request and leaves the view unchanged.
C8_AddAppendsCreated ==
  /\ (lastOp.op = "respond" /\ calls[lastOp.call].op = "addHero"
        /\ calls[lastOp.call].outcome.ok
        /\ calls[lastOp.call].outcome.body.t = "object") =>
       /\ Len(calls[lastOp.call].emitted) = 1
       /\ Json(calls[lastOp.call].emitted[1]) = calls[lastOp.call].outcome.body
       /\ heroes.t = "array" /\ lastOp.before.t = "array"
       /\ heroes.v = Append(lastOp.before.v, calls[lastOp.call].emitted[1])
  /\ (lastOp.op = "add" /\ IsBlank(lastOp.arg.v)) =>
       /\ Len(calls) = lastOp.ncalls
       /\ heroes = lastOp.before

\* C15: when the create fails, the add callback leaves the view as it was,
\* and no element of the view is ever an undefined value.
C15_FailedAddLeavesViewUnchanged ==
  /\ (lastOp.op = "respond" /\ calls[lastOp.call].op = "addHero"
        /\ ~calls[lastOp.call].outcome.ok) =>
       heroes = lastOp.before
  /\ heroes.t = "array" =>
       \A k \in 1..Len(heroes.v) : heroes.v[k].t # "undefined"

\* C18: no response handler fails on the view, and when the initial list
\* request and one add have both been answered with success, in either
\* order, the view holds the created entity.
C18_AddDuringListEndsInView ==
  /\ uncaught = <<>>
  /\ (Len(calls) = 2
        /\ calls[1].op = "getHeroes" /\ Succeeded(calls[1])
        /\ calls[1].outcome.body.t = "array"
        /\ calls[2].op = "addHero" /\ Succeeded(calls[2])
        /\ calls[2].outcome.body.t = "object") =>
       /\ Len(calls[2].emitted) = 1
       /\ calls[2].emitted[1].v.ref \in ViewRefs(heroes)

----------------------------------------------------------------------------
(* HeroSearchComponent: searchTerms (a Subject) piped through             *)
(* debounceTime(300), distinctUntilChanged() and switchMap(searchHeroes). *)
(* Time passes in Tick steps; a timer that is due fires before more time   *)
(* passes, but an input event that is due at the same moment may run       *)
(* before it.                                                              *)

SearchOutcomes ==
  {Failure(e) : e \in HttpErrors} \cup
  {Success(Null), Success(Arr(<<>>)), Success(Arr(<<[id |-> 1, name |-> <<"N">>]>>))}

(* a debounce that leaves a running timer alone when a new term arrives *)
debounceTime_next_keepTimer(d, term) ==
  IF d.hasValue THEN [d EXCEPT !.lastValue = term]
  ELSE [hasValue |-> TRUE, lastValue |-> term, timer |-> dueTime]

(* no quiet interval at all: the term is emitted at once *)
debounceTime_next_noDelay(d, term) ==
  [hasValue |-> TRUE, lastValue |-> term, timer |-> 0]

(* debounceTime._next: drop the scheduled emission, keep the new term,    *)
(* schedule its emission dueTime from now                                  *)
debounceTime_next(d, term) ==
  [hasValue |-> TRUE, lastValue |-> term, timer |-> dueTime]

(* a subject that keeps a term for a consumer that subscribes later *)
Subject_next_replay(live, d, term) == debounceTime_next(d, term)

(* Subject.next: the term goes to the observers there are now, here the    *)
(* debounce stage of a subscribed heroes$; with no observer it is dropped  *)
Subject_next(live, d, term) == IF live THEN debounceTime_next(d, term) ELSE d

distinctUntilChanged_passes_all(hk, k, term) == TRUE

(* a comparison that lets a term through again unless its search succeeded *)
distinctUntilChanged_passes_retry(hk, k, term) ==
  ~hk \/ k # term \/ (calls # <<>> /\ ~calls[Len(calls)].outcome.ok)

(* distinctUntilChanged: the first term passes, later ones if they differ  *)
(* (===) from the last term that arrived                                   *)
distinctUntilChanged_passes(hk, k, term) == ~hk \/ k # term

switchMap_keepInner(cs, in) == cs

(* switchMap: unsubscribe the inner subscription before projecting *)
switchMap_unsubscribe(cs, in) ==
  IF in # 0 /\ cs[in].st = "pending" THEN [cs EXCEPT ![in].st = "unsubscribed"] ELSE cs

InitSearch == InitService

(* The template's async pipe subscribes to heroes$ *)
AsyncPipeSubscribe ==
  /\ status = "idle"
  /\ status' = "live"
  /\ lastOp' = Op("subscribe", Undefined, 0)
  /\ UNCHANGED <<svcVars, heroesVars, detailVars, clockVars,
                 hasValue, lastValue, timer, age, hasKey, key,
                 inner, submits, survived, callSrc, observed>>

(* search(term): searchTerms.next(term) *)
HeroSearchComponent_search ==
  /\ Len(submits) < MaxSubmits
  /\ \E term \in TermInputs :
       /\ submits' = Append(submits, [term |-> term, gap |-> age, live |-> status = "live"])
       /\ lastOp' = Op("search", Str(term), 0)
       /\ age' = 0
       /\ LET d == Subject_next(
                      status = "live",
                      [hasValue |-> hasValue, lastValue |-> lastValue, timer |-> timer],
                      term)
          IN /\ hasValue' = d.hasValue
             /\ lastValue' = d.lastValue
             /\ timer' = d.timer
  /\ UNCHANGED <<svcVars, heroesVars, detailVars, clockVars, status, hasKey, key, inner,
                 survived, callSrc, observed>>

Tick ==
  /\ \E d \in Advance :
       /\ hasValue => d <= timer
       /\ hasValue \/ age < dueTime \/ sinceCall < dueTime
       /\ age' = Min(age + d, dueTime)
       /\ sinceCall' = Min(sinceCall + d, dueTime)
       /\ timer' = IF hasValue THEN timer - d ELSE timer
  /\ lastOp' = Op("tick", Undefined, 0)
  /\ UNCHANGED <<svcVars, heroesVars, detailVars, callGaps,
                 status, hasValue, lastValue, hasKey, key, inner,
                 submits, survived, callSrc, observed>>

(* The debounce timer fires: debouncedNext emits lastValue, which runs     *)
(* through distinctUntilChanged and switchMap within the same turn.        *)
DebounceFire ==
  /\ status = "live"
  /\ hasValue /\ timer = 0
  /\ hasValue' = FALSE
  /\ survived' = Append(survived, Len(submits))
  /\ hasKey' = TRUE
  /\ key' = lastValue
  /\ IF distinctUntilChanged_passes(hasKey, key, lastValue)
     THEN LET r  == HeroService_searchHeroes(messages, lastValue)
              cs == switchMap_unsubscribe(calls, inner)
              ix == Len(calls) + 1
          IN /\ calls' = Append(cs, r.call)
             /\ messages' = r.messages
             /\ callSrc' = Append(callSrc, Len(submits))
             /\ callGaps' = Append(callGaps, sinceCall)
             /\ sinceCall' = 0
             /\ lastOp' = Op("dispatch", Str(lastValue), ix)
             /\ IF r.call.st = "done"
                THEN /\ observed' = Append(observed,
                           [call |-> ix, value |-> r.call.emitted[1], dispatched |-> ix])
                     /\ inner' = 0
                ELSE /\ inner' = ix
                     /\ UNCHANGED observed
     ELSE /\ lastOp' = Op("suppress", Str(lastValue), 0)
          /\ UNCHANGED <<calls, messages, callSrc, observed, inner, clockVars>>
  /\ UNCHANGED <<console, nextRef, heroesVars, detailVars,
                 status, lastValue, timer, age, submits>>

InFlight(i) == i \in 1..Len(calls) /\ calls[i].st \in {"pending", "unsubscribed"}

(* A search response arrives.  For an unsubscribed request it is dropped;  *)
(* otherwise the value goes to the consumer of heroes$, and an error       *)
(* would end heroes$.                                                      *)
SearchRespond ==
  /\ \E i \in 1..Len(calls) :
       /\ InFlight(i)
       /\ lastOp' = Op("respond", Undefined, i)
       /\ \E outcome \in SearchOutcomes :
            IF calls[i].st = "unsubscribed"
            THEN /\ calls' = [calls EXCEPT ![i].st = "dropped", ![i].outcome = outcome]
                 /\ UNCHANGED <<messages, console, nextRef, observed, inner, status>>
            ELSE LET n == Settled(i, outcome) IN
                   /\ Finish(i, outcome, n)
                   /\ inner' = IF inner = i THEN 0 ELSE inner
                   /\ IF n.kind = "next"
                      THEN /\ observed' = Append(observed,
                                 [call |-> i, value |-> n.value, dispatched |-> Len(calls)])
                           /\ UNCHANGED status
                      ELSE /\ status' = "errored"
                           /\ UNCHANGED observed
  /\ UNCHANGED <<heroesVars, detailVars, clockVars,
                 hasValue, lastValue, timer, age, hasKey, key,
                 submits, survived, callSrc>>

NextSearch ==
  \/ AsyncPipeSubscribe
  \/ HeroSearchComponent_search
  \/ Tick
  \/ DebounceFire
  \/ SearchRespond

SpecSearch == InitSearch /\ [][NextSearch]_vars

(* Vocabulary of the claims about the search pipeline *)

TermOf(k) == submits[k].term

CallsFrom(i, j) == {c \in 1..Len(callSrc) : callSrc[c] \in i..j}

(* submits i..j form a burst: each came less than dueTime after the one before *)
IsBurst(i, j) == \A k \in (i + 1)..j : submits[k].gap < dueTime

ObservedOf(i) == {k \in 1..Len(observed) : observed[k].call = i}

\* C1: the consumer of heroes$ never receives the result of a search after
\* a later search has been dispatched: every batch it receives is the result
\* of the search dispatched last, so batches arrive in dispatch order, each
\* search at most once, whatever order the responses arrive in.
C1_OnlyLatestDispatchObserved ==
  /\ \A k \in 1..Len(observed) : observed[k].call = observed[k].dispatched
  /\ \A k \in 1..Len(observed) : \A m \in 1..Len(observed) :
       k < m => observed[k].call < observed[m].call
  /\ \A i \in 1..Len(calls) : calls[i].st = "dropped" => ObservedOf(i) = {}

C1_Witness ==
  \E i \in 1..Len(calls) : \E j \in 1..Len(calls) :
    /\ i < j
    /\ calls[i].st = "dropped" /\ calls[i].outcome.ok
    /\ calls[i].outcome.body.t = "array" /\ calls[i].outcome.body.v # <<>>
    /\ Succeeded(calls[j])
    /\ ObservedOf(j) # {}
    /\ observed[Len(observed)].call = j

\* C2: of a burst of terms, each submitted less than 300ms after the one
\* before, at most one reaches searchHeroes, and only the last term of the
\* burst can.
C2_BurstIssuesAtMostOneCall ==
  \A i \in 1..Len(submits) : \A j \in i..Len(submits) :
    IsBurst(i, j) =>
      /\ Cardinality(CallsFrom(i, j)) <= 1
      /\ \A c \in CallsFrom(i, j) :
           /\ callSrc[c] = j
           /\ calls[c].op = "searchHeroes"
           /\ calls[c].arg.v = TermOf(j)

C2_Witness ==
  /\ Len(submits) >= 2
  /\ IsBurst(1, 2) /\ submits[2].gap > 0
  /\ TermOf(1) # TermOf(2)
  /\ CallsFrom(1, 2) # {}

(* the survivor before survivor k, as a term *)
SurvivorTerm(k) == TermOf(survived[k])

Repeats(k) == k > 1 /\ SurvivorTerm(k) = SurvivorTerm(k - 1)

\* C9: a term that comes out of debounce and equals the term that came out
\* before it causes no searchHeroes call; one that differs from it (or is
\* the first) causes exactly one, for that term.
C9_DeduplicateSurvivors ==
  \A k \in 1..Len(survived) :
    LET cs == CallsFrom(survived[k], survived[k]) IN
      IF Repeats(k) THEN cs = {}
      ELSE /\ Cardinality(cs) = 1
           /\ \A c \in cs : calls[c].arg.v = SurvivorTerm(k)

C9_Witness ==
  \E k \in 2..Len(survived) :
    /\ Repeats(k)
    /\ \E m \in (k + 1)..Len(survived) :
         ~Repeats(m) /\ CallsFrom(survived[m], survived[m]) # {}

\* C10: a search whose request fails reaches the consumer as an empty batch
\* and heroes$ stays live: a term that afterwards passes debounce and
\* deduplication is dispatched, and the answer to it is delivered.
C10_FailedSearchKeepsPipelineLive ==
  /\ status # "errored"
  /\ \A i \in 1..Len(calls) :
       Failed(calls[i]) =>
         /\ Cardinality(ObservedOf(i)) = 1
         /\ \A k \in ObservedOf(i) : observed[k].value = Arr(<<>>)
  /\ \A i \in 1..Len(calls) : \A j \in 1..Len(calls) :
       (i < j /\ Failed(calls[i]) /\ Answered(calls[j])) =>
         /\ Cardinality(ObservedOf(j)) = 1
         /\ \A k \in ObservedOf(j) : observed[k].value = calls[j].emitted[1]
  /\ \A i \in 1..Len(calls) : \A k \in 1..Len(survived) :
       (Failed(calls[i]) /\ survived[k] > callSrc[i] /\ ~Repeats(k)) =>
         CallsFrom(survived[k], survived[k]) # {}

C10_Witness ==
  \E i \in 1..Len(calls) : \E j \in 1..Len(calls) :
    /\ i < j
    /\ Failed(calls[i]) /\ ObservedOf(i) # {}
    /\ Succeeded(calls[j]) /\ calls[j].outcome.body.t = "array"
    /\ calls[j].outcome.body.v # <<>>
    /\ \E k \in ObservedOf(j) : observed[k].value.v # <<>>

----------------------------------------------------------------------------
(* HeroDetailComponent: the entity of the route is fetched on init; save() *)
(* sends it back and navigates one step back when the update has answered. *)

InitDetail == InitService

(* ngOnInit -> getHero(): the id of the route, then subscribe with         *)
(* hero => this.selectedHeroDetails = hero                                  *)
HeroDetailComponent_ngOnInit ==
  /\ ~detailInited
  /\ detailInited' = TRUE
  /\ \E id \in Ids : Start(HeroService_getHero(messages, id))
  /\ UNCHANGED <<heroesVars, pipeVars, histVars, clockVars, selectedHeroDetails, navs>>

(* goBack(): this.location.back(), on behalf of the update call i *)
HeroDetailComponent_goBack(ns, i) == Append(ns, i)

(* save(): updateHero(this.selectedHeroDetails) and subscribe *)
HeroDetailComponent_save ==
  /\ detailInited
  /\ Len(calls) < MaxDetailOps
  /\ Start(HeroService_updateHero(messages, selectedHeroDetails))
  /\ UNCHANGED <<heroesVars, pipeVars, histVars, clockVars, detailVars>>

(* The subscriber callbacks of HeroDetailComponent *)
DetailSubscriber(i, n) ==
  CASE calls[i].op = "getHero" ->
         /\ selectedHeroDetails' = n.value
         /\ UNCHANGED navs
    [] calls[i].op = "updateHero" ->
         /\ navs' = HeroDetailComponent_goBack(navs, i)
         /\ UNCHANGED selectedHeroDetails
    [] OTHER -> UNCHANGED <<selectedHeroDetails, navs>>

DetailRespond ==
  /\ \E i \in 1..Len(calls) :
       /\ Pending(i)
       /\ \E outcome \in OutcomesFor(calls[i].op) :
            LET n == Settled(i, outcome) IN
              /\ Finish(i, outcome, n)
              /\ IF n.kind = "next" THEN DetailSubscriber(i, n)
                 ELSE UNCHANGED <<selectedHeroDetails, navs>>
  /\ UNCHANGED <<heroesVars, pipeVars, histVars, clockVars, detailInited>>

NextDetail ==
  \/ HeroDetailComponent_ngOnInit
  \/ HeroDetailComponent_save
  \/ DetailRespond

SpecDetail == InitDetail /\ [][NextDetail]_vars

(* The number of times goBack() ran for the update call i *)
Navigations(i) == Cardinality({k \in 1..Len(navs) : navs[k] = i})

\* C16: each save() navigates back exactly once, not before its update
\* request has been answered, and does so whether the update succeeded or
\* failed and was recovered to undefined.
C16_SaveNavigatesBackOnceSettled ==
  \A i \in 1..Len(calls) :
    calls[i].op = "updateHero" =>
      /\ calls[i].st = "pending" => Navigations(i) = 0
      /\ calls[i].st = "done" =>
           /\ Navigations(i) = 1
           /\ ~calls[i].errored /\ calls[i].completed
           /\ Len(calls[i].emitted) = 1
           /\ ~calls[i].outcome.ok => calls[i].emitted[1] = Undefined

C16_Witness ==
  \E i \in 1..Len(calls) : \E j \in 1..Len(calls) :
    /\ calls[i].op = "updateHero" /\ calls[j].op = "updateHero"
    /\ calls[i].arg.t = "object" /\ calls[j].arg.t = "object"
    /\ Failed(calls[i]) /\ Succeeded(calls[j])
    /\ Navigations(i) = 1 /\ Navigations(j) = 1

----------------------------------------------------------------------------
(* Further claims about HeroService *)

FoundMessage(term) == <<"HeroService: ", "found heroes matching \"">> \o term \o <<"\"">>
NoneMessage(term)  == <<"HeroService: ", "no heroes matching \"">> \o term \o <<"\"">>

\* C11: a successful searchHeroes(term) for a non-blank term whose response
\* holds N results adds exactly one message, the "found heroes matching"
\* one iff N > 0 and the "no heroes matching" one iff N = 0, and delivers
\* the sequence the backend sent.
C11_SearchLogsFoundOrNone ==
  \A i \in 1..Len(calls) :
    (calls[i].op = "searchHeroes" /\ ~IsBlank(calls[i].arg.v)
       /\ Succeeded(calls[i]) /\ calls[i].outcome.body.t = "array") =>
      /\ calls[i].msgs =
           <<IF Len(calls[i].outcome.body.v) > 0
             THEN FoundMessage(calls[i].arg.v) ELSE NoneMessage(calls[i].arg.v)>>
      /\ Len(calls[i].emitted) = 1
      /\ Json(calls[i].emitted[1]) = calls[i].outcome.body
      /\ calls[i].errs = <<>>

C11_Witness ==
  /\ \E i \in 1..Len(calls) :
       /\ calls[i].op = "searchHeroes" /\ Succeeded(calls[i])
       /\ calls[i].outcome.body.t = "array" /\ Len(calls[i].outcome.body.v) = 2
       /\ calls[i].arg.v = <<" ", "a">>
  /\ \E j \in 1..Len(calls) :
       /\ calls[j].op = "searchHeroes" /\ Succeeded(calls[j])
       /\ calls[j].outcome.body = Arr(<<>>)

\* C13: with a backend that gives both requests the same answer, two
\* getHero(id) calls for one id deliver equal entity values (or both
\* undefined), whichever response arrives first.
C13_GetHeroIdempotent ==
  \A i \in 1..Len(calls) : \A j \in 1..Len(calls) :
    (calls[i].op = "getHero" /\ calls[j].op = "getHero"
       /\ calls[i].arg = calls[j].arg
       /\ Answered(calls[i]) /\ Answered(calls[j])
       /\ calls[i].outcome = calls[j].outcome) =>
      /\ Len(calls[i].emitted) = 1 /\ Len(calls[j].emitted) = 1
      /\ Json(calls[i].emitted[1]) = Json(calls[j].emitted[1])
      /\ Json(calls[i].emitted[1]) =
           IF calls[i].outcome.ok THEN calls[i].outcome.body ELSE Undefined

C13_Witness ==
  /\ Len(calls) = 2
  /\ calls[1].op = "getHero" /\ calls[2].op = "getHero"
  /\ calls[1].arg = calls[2].arg
  /\ Succeeded(calls[1]) /\ Succeeded(calls[2])
  /\ calls[1].outcome = calls[2].outcome
  /\ calls[1].outcome.body.t = "object"
  /\ calls[2].emitted[1].v.ref < calls[1].emitted[1].v.ref

\* C14: a "fetched heroes" message is in the sink only for a getHeroes call
\* whose GET response has arrived successfully, never for one that failed
\* or is still pending.
C14_FetchedOnlyAfterFetching ==
  \A i \in 1..Len(calls) :
    (calls[i].op = "getHeroes" /\ FetchedMessages(calls[i]) # {}) =>
      Succeeded(calls[i])

----------------------------------------------------------------------------
(* Further claims about the search pipeline *)

\* C12: two consecutive searchHeroes calls of the pipeline are at least the
\* quiet interval of 300ms apart, whatever terms are typed and whenever.
C12_CallsAtLeastQuietIntervalApart ==
  \A k \in 2..Len(callGaps) : callGaps[k] >= dueTime

C12_Witness ==
  /\ Len(callGaps) >= 2
  /\ \E k \in 1..Len(submits) : submits[k].gap > 0 /\ submits[k].gap < dueTime


\* C17: while heroes$ has no subscriber a submitted term causes no
\* searchHeroes call, and what a later subscriber causes and observes comes
\* only from terms submitted after it subscribed.
C17_NoCallWithoutSubscriber ==
  /\ status = "idle" => calls = <<>> /\ observed = <<>>
  /\ \A i \in 1..Len(calls) : submits[callSrc[i]].live
  /\ \A k \in 1..Len(observed) : submits[callSrc[observed[k].call]].live
  /\ \A k \in 1..Len(survived) : submits[survived[k]].live

C17_Witness ==
  \E k \in 1..Len(submits) : \E o \in 1..Len(observed) :
    /\ ~submits[k].live /\ ~IsBlank(submits[k].term)
    /\ callSrc[observed[o].call] > k


\* C19: a blank term that reaches switchMap is dispatched like any other:
\* the consumer receives one empty batch for it, no request is sent, and no
\* earlier search is still subscribed, so no earlier result is received
\* after that batch.
C19_BlankTermSupersedes ==
  \A i \in 1..Len(calls) :
    IsBlank(calls[i].arg.v) =>
      /\ calls[i].req = NoRequest /\ calls[i].st = "done"
      /\ Cardinality(ObservedOf(i)) = 1
      /\ \A m \in ObservedOf(i) : observed[m].value = Arr(<<>>)
      /\ \A j \in 1..(i - 1) :
           /\ calls[j].st # "pending"
           /\ \A k \in ObservedOf(j) : \A m \in ObservedOf(i) : k < m

C19_Witness ==
  \E i \in 1..Len(calls) : \E j \in 1..Len(calls) :
    /\ j < i
    /\ IsBlank(calls[i].arg.v) /\ ObservedOf(i) # {}
    /\ ~IsBlank(calls[j].arg.v)
    /\ calls[j].st = "dropped" /\ calls[j].outcome.ok
    /\ calls[j].outcome.body.t = "array" /\ calls[j].outcome.body.v # <<>>


(* the searchHeroes calls made before submit s *)
CallsBefore(s) == {c \in 1..Len(callSrc) : callSrc[c] < s}

\* C20: when the term that comes out of debounce equals the one that came
\* out before it, no searchHeroes call is made for it, also when the search
\* for that term failed and was recovered to an empty batch, or has not been
\* answered.
C20_RepeatAfterFailureIssuesNoCall ==
  \A k \in 1..Len(survived) : \A c \in CallsBefore(survived[k]) :
    ( /\ Repeats(k)
      /\ \A c2 \in CallsBefore(survived[k]) : c2 <= c
      /\ Failed(calls[c]) \/ InFlight(c) ) =>
        /\ calls[c].arg.v = SurvivorTerm(k)
        /\ CallsFrom(survived[k], survived[k]) = {}

C20_Witness ==
  /\ lastOp.op = "suppress" /\ ~IsBlank(lastOp.arg.v)
  /\ calls # <<>>
  /\ Failed(calls[Len(calls)])
  /\ ObservedOf(Len(calls)) # {}
  /\ status = "live"


----------------------------------------------------------------------------
(* Further claims about the view *)

(* the positions of `view` that hold the object `hero` itself *)
TargetAt(view, hero) ==
  {k \in 1..Len(view) : view[k].t = "object" /\ view[k].v.ref = hero.v.ref}

\* C21: delete(hero) changes the view only by removing hero: the other
\* entries stay, in the same order; when hero is not an entry of the view
\* its contents stay as they were; and the response to the DELETE, success
\* or failure, leaves the view as it was.
C21_DeleteRemovesOnlyTarget ==
  /\ lastOp.op \in {"delete", "deleteStale"} =>
       IF lastOp.before.t = "array"
       THEN LET old  == lastOp.before.v
                gone == TargetAt(old, lastOp.arg)
            IN /\ heroes.t = "array"
               /\ Len(heroes.v) = Len(old) - Cardinality(gone)
               /\ \A k \in (1..Len(old)) \ gone :
                    heroes.v[k - Cardinality({g \in gone : g < k})] = old[k]
               /\ gone = {} => heroes = lastOp.before
               /\ lastOp.op = "delete" => gone # {}
       ELSE heroes = lastOp.before
  /\ (lastOp.op = "respond" /\ calls[lastOp.call].op = "deleteHero") =>
       heroes = lastOp.before

C21_Witness ==
  /\ lastOp.op = "deleteStale"
  /\ heroes.t = "array" /\ Len(heroes.v) = 2
  /\ lastOp.arg.v.id \in ViewIds(heroes)
  /\ \E i \in 1..Len(calls) :
       calls[i].op = "deleteHero" /\ Failed(calls[i])

====
